---- MODULE Spec2Model ----
(***************************************************************************)
(* A model of the Fontshare bulk downloader.                               *)
(*                                                                         *)
(*   Spec           the concurrent fetcher of fontshare_downloader.py:     *)
(*                  download_all_fonts starts one download_font task per   *)
(*                  list entry, the tasks share one asyncio.Semaphore, the *)
(*                  results are gathered in completion order.  A run may   *)
(*                  be interrupted and the program run again.              *)
(*   SpecRun        one such run that nobody interrupts, under the         *)
(*                  fairness of the event loop.                            *)
(*   SpecBulk       the sequential loop of fontshare_bulk_downloader.py,   *)
(*                  which keeps the names of the fonts that failed.        *)
(*   SpecDiscovery  discover_fonts of fontshare_downloader.py: the API     *)
(*                  endpoints, the website, the fallback list, and main's  *)
(*                  exit code around them.                                 *)
(*   SpecInstall    WindowsFontInstaller.run of proper_font_installer.py:  *)
(*                  every archive is extracted and each font file goes     *)
(*                  through the methods of install_font.                   *)
(*   SpecInstallFonts  FontInstaller.install_all_fonts of install_fonts.py *)
(*                  on Windows, macOS and Linux.                           *)
(*   SpecAdvanced   AdvancedFontInstaller.install_all_fonts_system of      *)
(*                  advanced_font_installer.py.                            *)
(*   SpecQuick      install_fonts_simple of quick_install_fonts.py.        *)
(*   SpecExtract    where extract_all_fonts.py, fix_fonts.py and           *)
(*                  install_fonts.py put the font files of the archives,   *)
(*                  and the pre-clean of the user's font directory.        *)
(*                                                                         *)
(* The asyncio event loop runs one coroutine at a time and switches only   *)
(* at an await, so each action is the code between two awaits.             *)
(***************************************************************************)
EXTENDS Integers, Sequences, FiniteSets, TLC

\* ------------------------------------------------------------------ bounds
MaxLen == 2           \* longest identifier list handed to the fetcher
MaxConcurrent == 2    \* largest --max-concurrent tried
BodyChunks == 2       \* how many write() chunks a non-empty archive body takes
MaxEntries == 1       \* longest list under one key of a JSON document
MaxMatches == 1       \* most JSON-looking matches in the website's HTML
MaxHrefs == 2         \* most href candidates in the website's HTML
MaxZips == 2          \* most archives an installer script finds
MaxFiles == 2         \* most entries in an archive
MaxKnown == 2         \* longest FONTSHARE_FONTS and POTENTIAL_FONTS tried

Identifiers == {"foo", "bar"}

\* self.rate_limit, the delay D (--rate-limit, 1.0 by default).  The model's clock
\* counts in units of D: a sleep of D is over once the clock has ticked.
rate_limit == 1

\* What the remote catalog answers for GET /fonts/download/<identifier>:
\*   "ok"      200 with a non-empty body      "empty"  200 with an empty body
\*   "http404" a non-200 status               "error"  a transport error
ResponseKinds == {"ok", "empty", "http404", "error"}

VARIABLES
    font_list,      \* the list download_all_fonts was called with
    max_concurrent, \* self.max_concurrent
    backend,        \* the remote catalog: identifier -> response kind
    files,          \* the archive file fonts/<id>/<id>.zip of each identifier
    previous,       \* how the run before this one ended: "none", "done", "interrupted"
    phase,          \* "running", "done" (download_all_fonts returned), "interrupted"
    pc,             \* where each download_font task is
    semaphore,      \* the semaphore's counter
    slept,          \* per task: clock ticks since it wrote its archive and went to
                    \* sleep (never more than rate_limit), NotWritten before that
    task_result,    \* the value a task returned
    results,        \* download_all_fonts' results list, in completion order
    stats,          \* the dict download_all_fonts returns
    requests,       \* per identifier: archive requests issued in this run
    startFiles,     \* the archive files as they were when this run started
    \* fontshare_bulk_downloader.py
    index,          \* the loop's i: the entry of fonts being processed
    bulk_pc,        \* where the loop body is
    success_count,  \* success_count
    failed_fonts,   \* failed_fonts
    bulk_report,    \* the final statistics the script prints
    \* discover_fonts
    disc_pc,        \* "idle", "api", "web", "fallback", "done"
    endpoint,       \* the index in api_endpoints of the endpoint tried next
    calls,          \* the strategies discover_fonts has called, in order
    api_fonts,      \* what _try_api_discovery returned
    web_fonts,      \* what _try_website_parsing returned
    imported,       \* whether "from font_list import ..." succeeded
    known_fonts,    \* FONTSHARE_FONTS as imported
    available_potential, \* the potential fonts whose probe answered 200
    discovered,     \* what discover_fonts returned
    failures,       \* the strategies in which something has failed so far
    \* main and run of fontshare_downloader.py
    main_pc,        \* "idle", "start", "running", "downloading", "exited"
    exit_code,      \* the exit code of the process, NoExit while it runs
    downloads_started, \* download_all_fonts has been called
    \* the installer scripts
    is_admin,       \* what is_admin() answers
    os_type,        \* platform.system().lower()
    zip_count,      \* len(zip_files)
    zip_index,      \* the archive of zip_files being processed
    font_files,     \* the font files extracted from it (the kinds of the entries)
    file_index,     \* the font file being installed
    package_success, \* package_success
    inst_pc,        \* where the installer is
    attempts,       \* the installation methods tried on the current font file
    file_result,    \* what install_font returned for it
    tallies,        \* the counts the installer keeps
    package,        \* the archive being processed: what was extracted, installed, counted
    broadcasts,     \* WM_FONTCHANGE broadcasts sent so far
    system_target_used, \* a copy or a registration was called on a System target
    install_type,   \* "User" or "System": the directory quick_install_fonts.py writes to
    \* the extractor scripts
    script,         \* which script runs
    choice,         \* what the operator answers when the script asks
    target_files,   \* the files in the target font directory, by path
    staged,         \* the files in the script's temporary directory, by path
    cleaned         \* the pre-clean has run

vars == <<font_list, max_concurrent, backend, files, previous, phase, pc,
          semaphore, slept, task_result, results,
          stats, requests, startFiles,
          index, bulk_pc, success_count, failed_fonts, bulk_report,
          disc_pc, endpoint, calls, api_fonts, web_fonts, imported, known_fonts,
          available_potential, discovered, failures,
          main_pc, exit_code, downloads_started,
          is_admin, os_type, zip_count, zip_index, font_files, file_index,
          package_success,
          inst_pc, attempts, file_result, tallies, package, broadcasts,
          system_target_used, install_type,
          script, choice, target_files, staged, cleaned>>

\* The state of the script fontshare_bulk_downloader.py.
bulkVars == <<index, bulk_pc, success_count, failed_fonts, bulk_report>>

\* The state of discover_fonts.
discoveryVars == <<disc_pc, endpoint, calls, api_fonts, web_fonts, imported,
                   known_fonts, available_potential, discovered, failures,
                   main_pc, exit_code, downloads_started>>

\* What an installer script finds when it starts.
runVars == <<is_admin, os_type, zip_count, install_type, script, choice>>

\* The directories an extractor script works on.
extractVars == <<target_files, staged, cleaned>>

\* The state of an installer script.
installerVars == <<is_admin, os_type, zip_count, zip_index, font_files, file_index,
                   package_success, inst_pc, attempts, file_result, tallies,
                   package, broadcasts, system_target_used, install_type,
                   script, choice, target_files, staged, cleaned>>

\* The state of main and run around discover_fonts.
mainVars == <<main_pc, exit_code, downloads_started>>

\* The state of the class FontshareDownloader's fetcher.
fetcherVars == <<max_concurrent, previous, pc, semaphore, slept, task_result,
                 results, stats>>

\* ------------------------------------------------------------------ data
RECURSIVE Chunks(_, _)
Chunks(id, n) == IF n = 0 THEN <<>> ELSE Append(Chunks(id, n - 1), <<id, n>>)

\* The archive bytes the catalog holds for an identifier.
Body(id) == Chunks(id, BodyChunks)

ResponseBody(kind, id) == IF kind = "ok" THEN Body(id) ELSE <<>>

ResponseStatus(kind) == IF kind \in {"ok", "empty"} THEN 200 ELSE 404

NoFile == [exists |-> FALSE, data |-> <<>>]

FileOf(data) == [exists |-> TRUE, data |-> data]

Prefix(s, k) == SubSeq(s, 1, k)

\* What a fonts directory can hold when the program starts: per identifier no
\* archive, an empty one or a complete one.
StoredFiles == {f \in [Identifiers -> {NoFile} \cup {FileOf(Prefix(Body(id), k)) :
                                          id \in Identifiers, k \in {0, BodyChunks}}] :
                   \A id \in Identifiers :
                       f[id] \in {NoFile, FileOf(<<>>), FileOf(Body(id))}}

\* The identifier lists tried.  Nothing in the program tells one identifier from
\* another, so the lists that begin with "bar" are left to the renaming of the two.
Lists == {l \in UNION {[1..n -> Identifiers] : n \in 1..MaxLen} : l[1] = "foo"}

Tasks == 1..Len(font_list)

NoStats == [total |-> -1, success |-> -1, failed |-> -1]

RECURSIVE SumTrue(_)
SumTrue(s) == IF s = <<>> THEN 0
              ELSE (IF Head(s) THEN 1 ELSE 0) + SumTrue(Tail(s))

\* ------------------------------------------------------------------ download_font
\* asyncio.Semaphore(self.max_concurrent)
NewSemaphoreOneMore(value) == value + 1
NewSemaphore(value) == value

\* Leaving "async with semaphore", by return or by exception, releases the slot.
ReleaseNever(value) == value
Release(value) == value + 1

\* The tasks inside "async with semaphore".
Holding == {t \in Tasks : pc[t] \in {"requested", "reading", "sleeping"}}

NotWritten == -1

\* An archive file that exists with non-zero size.
NonEmpty(f) == f.exists /\ Len(f.data) > 0

\* font_file.exists() and font_file.stat().st_size > 0
AlreadyDownloadedNever(id) == FALSE
AlreadyDownloadedWhenEmpty(id) == files[id].exists /\ Len(files[id].data) = 0
AlreadyDownloaded(id) == files[id].exists /\ Len(files[id].data) > 0

\* A task's coroutine ends.  as_completed hands the finished tasks to the loop of
\* download_all_fonts in completion order, so the value is appended to results
\* here: for coro in as_completed(tasks): result = await coro; results.append(result)
Returned(t, value) ==
    /\ pc' = [pc EXCEPT ![t] = "returned"]
    /\ task_result' = [task_result EXCEPT ![t] = value]
    /\ results' = Append(results, value)

\* except Exception: log and return False (the semaphore is released on the way out).
HandleErrorPropagate(t) ==
    /\ phase' = "aborted"
    /\ UNCHANGED <<pc, task_result, results>>
HandleError(t) ==
    /\ Returned(t, FALSE)
    /\ phase' = phase

\* else: (a status other than 200) log "HTTP <status>" and return False.
FailedStatusRetry(t) ==
    /\ pc' = [pc EXCEPT ![t] = "waiting"]
    /\ UNCHANGED <<task_result, results, phase>>
FailedStatus(t) ==
    /\ Returned(t, FALSE)
    /\ phase' = phase

\* await asyncio.sleep(self.rate_limit) is over.
SleepElapsedNever(t) == FALSE
SleepElapsedAtOnce(t) == TRUE
SleepElapsed(t) == slept[t] >= rate_limit

\* async with semaphore: ... up to the first await inside (or the return before it).
Enter(t) ==
    /\ phase = "running"
    /\ pc[t] = "waiting"
    /\ semaphore > 0
    /\ LET id == font_list[t] IN
       \/ \* font_dir.mkdir(exist_ok=True) raises; it cannot where the archive
          \* file, and so its directory, exists
          /\ ~files[id].exists
          /\ HandleError(t)
          /\ UNCHANGED <<semaphore, requests>>
       \/ \* already downloaded: return True
          /\ AlreadyDownloaded(id)
          /\ Returned(t, TRUE)
          /\ UNCHANGED <<semaphore, requests, phase>>
       \/ \* session.get(download_url)
          /\ ~AlreadyDownloaded(id)
          /\ semaphore' = semaphore - 1
          /\ pc' = [pc EXCEPT ![t] = "requested"]
          /\ requests' = [requests EXCEPT ![id] = @ + 1]
          /\ UNCHANGED <<task_result, results, phase>>
    /\ UNCHANGED <<font_list, max_concurrent, backend, files, previous,
                   slept, stats, startFiles>>
    /\ UNCHANGED <<bulkVars, discoveryVars, installerVars>>

\* The response (or a transport error) arrives.
Response(t) ==
    /\ phase = "running"
    /\ pc[t] = "requested"
    /\ LET kind == backend[font_list[t]] IN
       \/ /\ kind = "error"
          /\ HandleError(t)
          /\ semaphore' = Release(semaphore)
       \/ /\ kind # "error"
          /\ ResponseStatus(kind) # 200
          /\ FailedStatus(t)
          /\ semaphore' = Release(semaphore)
       \/ /\ kind # "error"
          /\ ResponseStatus(kind) = 200
          /\ pc' = [pc EXCEPT ![t] = "reading"]
          /\ UNCHANGED <<semaphore, task_result, results, phase>>
    /\ UNCHANGED <<font_list, max_concurrent, backend, files, previous,
                   slept, stats, requests, startFiles>>
    /\ UNCHANGED <<bulkVars, discoveryVars, installerVars>>

\* The process ends before download_all_fonts returns: what it held in memory is
\* gone, the files stay as they are.
ProcessEnds ==
    /\ phase' = "interrupted"
    /\ pc' = [t \in Tasks |-> "cancelled"]
    /\ semaphore' = 0
    /\ slept' = [t \in Tasks |-> NotWritten]
    /\ task_result' = [t \in Tasks |-> FALSE]
    /\ results' = <<>>
    /\ stats' = NoStats

\* content = await response.read() returns; open(font_file, 'wb'), f.write(content).
ReadDone(t) ==
    /\ phase = "running"
    /\ pc[t] = "reading"
    /\ LET id == font_list[t]
           content == ResponseBody(backend[id], id)
       IN
       \/ \* the file is written and closed; the task starts its sleep
          /\ files' = [files EXCEPT ![id] = FileOf(content)]
          /\ pc' = [pc EXCEPT ![t] = "sleeping"]
          /\ slept' = [slept EXCEPT ![t] = 0]
          /\ UNCHANGED <<semaphore, task_result, results, phase, stats>>
       \/ \* open() raises: nothing is written
          /\ HandleError(t)
          /\ semaphore' = Release(semaphore)
          /\ UNCHANGED <<files, slept, stats>>
       \/ \* write() raises after k chunks (the disk is full, ...)
          /\ \E k \in 0..(Len(content) - 1) :
                files' = [files EXCEPT ![id] = FileOf(Prefix(content, k))]
          /\ HandleError(t)
          /\ semaphore' = Release(semaphore)
          /\ UNCHANGED <<slept, stats>>
       \/ \* the process is interrupted or killed after k chunks
          /\ \E k \in 0..(Len(content) - 1) :
                files' = [files EXCEPT ![id] = FileOf(Prefix(content, k))]
          /\ ProcessEnds
    /\ UNCHANGED <<font_list, max_concurrent, backend, previous,
                   requests, startFiles>>
    /\ UNCHANGED <<bulkVars, discoveryVars, installerVars>>

\* The sleep is over: return True.
SleepDone(t) ==
    /\ phase = "running"
    /\ pc[t] = "sleeping"
    /\ SleepElapsed(t)
    /\ Returned(t, TRUE)
    /\ semaphore' = Release(semaphore)
    /\ UNCHANGED <<font_list, max_concurrent, backend, files, previous, phase,
                   slept, stats, requests, startFiles>>
    /\ UNCHANGED <<bulkVars, discoveryVars, installerVars>>

\* The clock ticks.
Tick ==
    /\ phase = "running"
    /\ \E t \in Tasks : slept[t] # NotWritten /\ slept[t] < rate_limit
    /\ slept' = [t \in Tasks |->
                    IF slept[t] # NotWritten /\ slept[t] < rate_limit
                    THEN slept[t] + 1 ELSE slept[t]]
    /\ UNCHANGED <<font_list, max_concurrent, backend, files, previous, phase,
                   pc, semaphore, task_result, results, stats, requests, startFiles>>
    /\ UNCHANGED <<bulkVars, discoveryVars, installerVars>>

\* ------------------------------------------------------------------ download_all_fonts
\* Python's None, and a list, as the two kinds of value a discovery strategy returns.
None == [is_none |-> TRUE, list |-> <<>>]
ListOf(l) == [is_none |-> FALSE, list |-> l]

\* install_font returns a bool and nothing else.
InstallResult(ok) == [installed |-> ok]

\* No archive has been looked at yet.
NoPackage == [accepted |-> 0, extracted |-> 0, read_failed |-> FALSE,
              installed |-> 0, counted |-> "pending"]

\* No extractor script is running.
ExtractIdle ==
    /\ install_type = "User"
    /\ script = "none"
    /\ choice = "unasked"
    /\ target_files = {}
    /\ staged = {}
    /\ cleaned = FALSE

\* No installer script is running.
InstallerIdle ==
    /\ ExtractIdle
    /\ is_admin = FALSE
    /\ os_type = "windows"
    /\ zip_count = 0
    /\ zip_index = 1
    /\ font_files = <<>>
    /\ file_index = 1
    /\ package_success = TRUE
    /\ inst_pc = "idle"
    /\ attempts = <<>>
    /\ file_result = InstallResult(FALSE)
    /\ tallies = [success_count |-> 0, total_fonts |-> 0]
    /\ package = NoPackage
    /\ broadcasts = 0
    /\ system_target_used = FALSE

\* The process has not exited.
NoExit == -1

\* discover_fonts is not running.
DiscoveryIdle ==
    /\ main_pc = "idle"
    /\ exit_code = NoExit
    /\ downloads_started = FALSE
    /\ disc_pc = "idle"
    /\ endpoint = 1
    /\ calls = <<>>
    /\ api_fonts = None
    /\ web_fonts = None
    /\ imported = FALSE
    /\ known_fonts = <<>>
    /\ available_potential = <<>>
    /\ discovered = None
    /\ failures = {}

NoReport == [success |-> 0, total |-> 0, failed |-> 0, failed_fonts |-> <<>>]

\* The bulk script is not running.
BulkIdle ==
    /\ index = 0
    /\ bulk_pc = "idle"
    /\ success_count = 0
    /\ failed_fonts = <<>>
    /\ bulk_report = NoReport

\* success_count = sum(results); failed_count = len(results) - success_count
ComputeStatsMiscount(res) ==
    [total |-> Len(font_list), success |-> SumTrue(res), failed |-> Len(font_list) - Len(res)]
ComputeStats(res) ==
    [total |-> Len(font_list), success |-> SumTrue(res), failed |-> Len(res) - SumTrue(res)]

\* as_completed is exhausted: the statistics are computed and returned.
Finish ==
    /\ phase = "running"
    /\ \A t \in Tasks : pc[t] = "returned"
    /\ stats' = ComputeStats(results)
    /\ phase' = "done"
    /\ UNCHANGED <<font_list, max_concurrent, backend, files, previous, pc,
                   semaphore, slept, task_result,
                   results, requests, startFiles>>
    /\ UNCHANGED <<bulkVars, discoveryVars, installerVars>>

\* KeyboardInterrupt while the event loop waits: asyncio.run cancels the tasks,
\* main() prints and the process ends.
Interrupt ==
    /\ phase = "running"
    /\ ProcessEnds
    /\ UNCHANGED <<font_list, max_concurrent, backend, files, previous,
                   requests, startFiles>>
    /\ UNCHANGED <<bulkVars, discoveryVars, installerVars>>

\* The state download_all_fonts sets up before any task runs.
StartRun(fl, c, f) ==
    /\ font_list' = fl
    /\ max_concurrent' = c
    /\ files' = f
    /\ startFiles' = f
    /\ phase' = "running"
    /\ pc' = [t \in 1..Len(fl) |-> "waiting"]
    /\ semaphore' = NewSemaphore(c)
    /\ slept' = [t \in 1..Len(fl) |-> NotWritten]
    /\ task_result' = [t \in 1..Len(fl) |-> FALSE]
    /\ results' = <<>>
    /\ stats' = NoStats
    /\ requests' = [id \in Identifiers |-> 0]

\* The program is run again over the same list, with the files the last run left.
NextRun ==
    /\ phase \in {"done", "interrupted"}
    /\ previous' = phase
    /\ StartRun(font_list, max_concurrent, files)
    /\ UNCHANGED <<backend, bulkVars, discoveryVars, installerVars>>

Init ==
    /\ InstallerIdle
    /\ font_list \in Lists
    /\ max_concurrent \in 1..MaxConcurrent
    /\ backend \in [Identifiers -> ResponseKinds]
    /\ files \in StoredFiles
    /\ startFiles = files
    /\ previous = "none"
    /\ phase = "running"
    /\ pc = [t \in Tasks |-> "waiting"]
    /\ semaphore = NewSemaphore(max_concurrent)
    /\ slept = [t \in Tasks |-> NotWritten]
    /\ task_result = [t \in Tasks |-> FALSE]
    /\ results = <<>>
    /\ stats = NoStats
    /\ requests = [id \in Identifiers |-> 0]
    /\ BulkIdle
    /\ DiscoveryIdle

Next ==
    \/ \E t \in Tasks : Enter(t)
    \/ \E t \in Tasks : Response(t)
    \/ \E t \in Tasks : ReadDone(t)
    \/ \E t \in Tasks : SleepDone(t)
    \/ Tick
    \/ Finish
    \/ Interrupt
    \/ NextRun

Spec == Init /\ [][Next]_vars

\* One run of download_all_fonts that nobody interrupts.
RunNext ==
    \/ \E t \in Tasks : Enter(t)
    \/ \E t \in Tasks : Response(t)
    \/ \E t \in Tasks : ReadDone(t)
    \/ \E t \in Tasks : SleepDone(t)
    \/ Tick
    \/ Finish

\* The event loop runs every coroutine that is ready (ready callbacks are
\* served first in, first out), every request ends with a response or an
\* error, and time passes.
RunFairness ==
    /\ WF_vars(\E t \in Tasks : Enter(t))
    /\ WF_vars(\E t \in Tasks : Response(t))
    /\ WF_vars(\E t \in Tasks : ReadDone(t))
    /\ WF_vars(\E t \in Tasks : SleepDone(t))
    /\ WF_vars(Tick)
    /\ WF_vars(Finish)

SpecRun == Init /\ [][RunNext]_vars /\ RunFairness


\* ------------------------------------------------------------------ fontshare_bulk_downloader.py
\* The fetcher of the class FontshareDownloader is not running.
FetcherIdle ==
    /\ max_concurrent = 0
    /\ previous = "none"
    /\ pc = <<>>
    /\ semaphore = 0
    /\ slept = <<>>
    /\ task_result = <<>>
    /\ results = <<>>
    /\ stats = NoStats

\* failed_fonts.append(font_name): the entry holds the name and nothing else.
FailedEntry(font_name) == [name |-> font_name]

\* if font_file.exists() and font_file.stat().st_size > 0
BulkAlreadyDownloaded(id) == NonEmpty(files[id])

\* The end of the loop body: if i < len(fonts): await asyncio.sleep(rate_limit).
BulkAfterEntry ==
    /\ index' = index
    /\ bulk_pc' = IF index < Len(font_list) THEN "sleeping" ELSE "end"

\* The next entry of "for i, font_name in enumerate(fonts, 1)".
BulkNextEntry ==
    /\ index' = index + 1
    /\ bulk_pc' = IF index < Len(font_list) THEN "top" ELSE "end"

\* The loop body up to session.get (or up to the continue, or the except).
BulkEnter ==
    /\ phase = "running"
    /\ bulk_pc = "top"
    /\ LET id == font_list[index] IN
       \/ \* font_dir.mkdir raises: except Exception
          /\ ~files[id].exists
          /\ failed_fonts' = Append(failed_fonts, FailedEntry(id))
          /\ BulkAfterEntry
          /\ UNCHANGED <<success_count, requests>>
       \/ \* already exists: success_count += 1; continue
          /\ BulkAlreadyDownloaded(id)
          /\ success_count' = success_count + 1
          /\ BulkNextEntry
          /\ UNCHANGED <<failed_fonts, requests>>
       \/ \* session.get(url)
          /\ ~BulkAlreadyDownloaded(id)
          /\ requests' = [requests EXCEPT ![id] = @ + 1]
          /\ bulk_pc' = "requested"
          /\ UNCHANGED <<index, success_count, failed_fonts>>
    /\ UNCHANGED <<font_list, backend, files, startFiles, phase, bulk_report, fetcherVars, discoveryVars,
                   installerVars>>

\* The response (or a transport error) arrives.
BulkResponse ==
    /\ phase = "running"
    /\ bulk_pc = "requested"
    /\ LET id == font_list[index]
           kind == backend[id]
       IN
       \/ \* except Exception
          /\ kind = "error"
          /\ failed_fonts' = Append(failed_fonts, FailedEntry(id))
          /\ BulkAfterEntry
       \/ \* else: print "HTTP <status>"; failed_fonts.append(font_name)
          /\ kind # "error"
          /\ ResponseStatus(kind) # 200
          /\ failed_fonts' = Append(failed_fonts, FailedEntry(id))
          /\ BulkAfterEntry
       \/ \* if response.status == 200: content = await response.read()
          /\ kind # "error"
          /\ ResponseStatus(kind) = 200
          /\ bulk_pc' = "reading"
          /\ UNCHANGED <<index, failed_fonts>>
    /\ UNCHANGED <<font_list, backend, files, startFiles, phase, requests,
                   success_count, bulk_report, fetcherVars, discoveryVars,
                   installerVars>>

\* response.read() returns; open(font_file, 'wb'), f.write(content).
BulkReadDone ==
    /\ phase = "running"
    /\ bulk_pc = "reading"
    /\ LET id == font_list[index]
           content == ResponseBody(backend[id], id)
       IN
       \/ \* written: success_count += 1
          /\ files' = [files EXCEPT ![id] = FileOf(content)]
          /\ success_count' = success_count + 1
          /\ BulkAfterEntry
          /\ UNCHANGED failed_fonts
       \/ \* open() raises: except Exception
          /\ failed_fonts' = Append(failed_fonts, FailedEntry(id))
          /\ BulkAfterEntry
          /\ UNCHANGED <<files, success_count>>
       \/ \* write() raises after k chunks: except Exception
          /\ \E k \in 0..(Len(content) - 1) :
                files' = [files EXCEPT ![id] = FileOf(Prefix(content, k))]
          /\ failed_fonts' = Append(failed_fonts, FailedEntry(id))
          /\ BulkAfterEntry
          /\ UNCHANGED success_count
    /\ UNCHANGED <<font_list, backend, startFiles, phase, requests, bulk_report,
                   fetcherVars, discoveryVars,
                   installerVars>>

\* The sleep between two entries is over.
BulkSleepDone ==
    /\ phase = "running"
    /\ bulk_pc = "sleeping"
    /\ BulkNextEntry
    /\ UNCHANGED <<font_list, backend, files, startFiles, phase, requests,
                   success_count, failed_fonts, bulk_report, fetcherVars, discoveryVars,
                   installerVars>>

\* The final statistics: the counts and ', '.join(failed_fonts).
BulkFinish ==
    /\ phase = "running"
    /\ bulk_pc = "end"
    /\ bulk_report' = [success |-> success_count, total |-> Len(font_list),
                       failed |-> Len(failed_fonts), failed_fonts |-> failed_fonts]
    /\ phase' = "done"
    /\ UNCHANGED <<font_list, backend, files, startFiles, requests, index, bulk_pc,
                   success_count, failed_fonts, fetcherVars, discoveryVars,
                   installerVars>>

BulkInit ==
    /\ InstallerIdle
    /\ font_list \in Lists
    /\ backend \in [Identifiers -> ResponseKinds]
    /\ files \in StoredFiles
    /\ startFiles = files
    /\ requests = [id \in Identifiers |-> 0]
    /\ phase = "running"
    /\ index = 1
    /\ bulk_pc = "top"
    /\ success_count = 0
    /\ failed_fonts = <<>>
    /\ bulk_report = NoReport
    /\ FetcherIdle
    /\ DiscoveryIdle

BulkNext ==
    \/ BulkEnter
    \/ BulkResponse
    \/ BulkReadDone
    \/ BulkSleepDone
    \/ BulkFinish

SpecBulk == BulkInit /\ [][BulkNext]_vars


\* ------------------------------------------------------------------ discover_fonts
\* A font name is the sequence of its characters.
Range(f) == {f[i] : i \in DOMAIN f}

\* str.lower(), on the letters the names tried are written with.
Lower(c) == IF c = "A" THEN "a" ELSE IF c = "B" THEN "b" ELSE c

\* name.lower().replace(' ', '-')
Normalize(name) ==
    [i \in 1..Len(name) |-> IF Lower(name[i]) = " " THEN "-" ELSE Lower(name[i])]

\* A JSON scalar under a name field: missing, a string, a number.
Missing == [t |-> "missing", s |-> <<>>]
Str(s) == [t |-> "str", s |-> s]
Number == [t |-> "number", s |-> <<>>]

\* Python's truth value of a scalar (the number is not 0).
ScalarTruthy(x) == x.t = "number" \/ (x.t = "str" /\ Len(x.s) > 0)

\* An entry of a JSON list: an object with name fields, a string, anything else.
DictEntry(slug, name, id) ==
    [kind |-> "dict", slug |-> slug, name |-> name, id |-> id, text |-> <<>>]
StrEntry(s) ==
    [kind |-> "str", slug |-> Missing, name |-> Missing, id |-> Missing, text |-> s]
OtherEntry ==
    [kind |-> "other", slug |-> Missing, name |-> Missing, id |-> Missing, text |-> <<>>]

\* The entries tried.
JsonEntries ==
    { DictEntry(Str(<<"A", "b">>), Str(<<"a", " ", "b">>), Missing),
      DictEntry(Str(<<>>), Str(<<"a", " ", "b">>), Missing),
      DictEntry(Missing, Missing, Str(<<"a", "b">>)),
      DictEntry(Missing, Missing, Number),
      DictEntry(Missing, Missing, Missing),
      StrEntry(<<"A", "b">>),
      StrEntry(<<>>),
      OtherEntry }

JsonLists == UNION {[1..n -> JsonEntries] : n \in 0..MaxEntries}

\* The value under a key of a JSON object: no such key, a list, anything else.
AbsentValue == [kind |-> "absent", list |-> <<>>]
NotAList == [kind |-> "other", list |-> <<>>]
ListValue(l) == [kind |-> "list", list |-> l]
JsonValues == {AbsentValue, NotAList} \cup {ListValue(l) : l \in JsonLists}

\* possible_keys = ['fonts', 'data', 'items', 'results']
possible_keys == <<"fonts", "data", "items", "results">>

\* The JSON objects tried: those with at most two of the possible keys.
Documents ==
    { [k \in Range(possible_keys) |->
          IF k = k1 THEN v1 ELSE IF k = k2 THEN v2 ELSE AbsentValue] :
      k1 \in Range(possible_keys), k2 \in Range(possible_keys),
      v1 \in JsonValues, v2 \in JsonValues }

\* name = font.get('slug') or font.get('name') or font.get('id')
NameOf(font) ==
    IF ScalarTruthy(font.slug) THEN font.slug
    ELSE IF ScalarTruthy(font.name) THEN font.name
    ELSE font.id

\* name.lower() raises AttributeError when the name is not a string.
EntryRaises(font) ==
    /\ font.kind = "dict"
    /\ ScalarTruthy(NameOf(font))
    /\ NameOf(font).t # "str"

\* What one entry appends to fonts.
EntryNames(font) ==
    IF font.kind = "dict"
    THEN IF ScalarTruthy(NameOf(font)) THEN <<Normalize(NameOf(font).s)>> ELSE <<>>
    ELSE IF font.kind = "str" THEN <<Normalize(font.text)>>
    ELSE <<>>

RECURSIVE ListNames(_, _)
\* for font in font_data, from entry i on
ListNames(font_data, i) ==
    IF i > Len(font_data) THEN <<>>
    ELSE EntryNames(font_data[i]) \o ListNames(font_data, i + 1)

RECURSIVE KeyNames(_, _)
\* for key in possible_keys, from key i on
KeyNames(data, i) ==
    IF i > Len(possible_keys) THEN <<>>
    ELSE (IF data[possible_keys[i]].kind = "list"
          THEN ListNames(data[possible_keys[i]].list, 1) ELSE <<>>)
         \o KeyNames(data, i + 1)

\* _extract_font_names raises.
ExtractRaises(data) ==
    \E k \in Range(possible_keys) :
        /\ data[k].kind = "list"
        /\ \E i \in DOMAIN data[k].list : EntryRaises(data[k].list[i])

\* _extract_font_names(data), when it does not raise
ExtractFontNames(data) == KeyNames(data, 1)

\* api_endpoints
api_endpoints == <<"api/fonts", "api/fonts/list", "www/api/fonts">>

\* What an API endpoint answers: a transport error, a non-200 status, a 200 whose
\* body is not JSON (response.json() raises), a 200 with a JSON object.
NoDocument == [k \in Range(possible_keys) |-> AbsentValue]
ApiResponses ==
    {[kind |-> k, data |-> NoDocument] : k \in {"error", "status", "notjson"}}
    \cup {[kind |-> "json", data |-> d] : d \in Documents}

\* "if fonts:" in discover_fonts, on the value a strategy returned
FontsFoundAlways(fonts) == TRUE
FontsFound(fonts) == ~fonts.is_none /\ Len(fonts.list) > 0

\* discover_fonts after a strategy returned fonts: return them, or go on with next.
DiscoverAfter(fonts, next) ==
    IF FontsFound(fonts)
    THEN discovered' = fonts /\ disc_pc' = "done"
    ELSE discovered' = discovered /\ disc_pc' = next

\* "except Exception as e: self.logger.debug(...)": the failure is logged and the
\* code after the try block goes on at next.
CaughtReraised(raised, next) == IF raised THEN "aborted" ELSE next
Caught(raised, next) == next

\* session.get, response.json() or _extract_font_names raises.
ApiRaises(response) ==
    \/ response.kind \in {"error", "notjson"}
    \/ response.kind = "json" /\ ExtractRaises(response.data)

\* What one turn of the loop of _try_api_discovery can come to, over all the
\* responses: the fonts it has (none when it raised or the status was not 200),
\* whether it raised, whether it failed.
ApiTurns ==
    { [fonts |-> IF response.kind = "json" /\ ~ApiRaises(response)
                 THEN ExtractFontNames(response.data) ELSE <<>>,
       raised |-> ApiRaises(response),
       failed |-> ApiRaises(response) \/ response.kind = "status"] :
      response \in ApiResponses }

\* One turn of the loop of _try_api_discovery, and discover_fonts' check when the
\* loop returns.
TryApiEndpoint ==
    /\ main_pc = "running"
    /\ disc_pc = "api"
    /\ calls' = IF endpoint = 1 THEN Append(calls, "api") ELSE calls
    /\ \E turn \in ApiTurns :
          /\ failures' = IF turn.failed THEN failures \cup {"api"} ELSE failures
          /\ IF Len(turn.fonts) > 0
             THEN \* if fonts: return fonts
                  /\ api_fonts' = ListOf(turn.fonts)
                  /\ DiscoverAfter(ListOf(turn.fonts), "web")
                  /\ UNCHANGED endpoint
             ELSE IF endpoint < Len(api_endpoints)
             THEN \* the next endpoint
                  /\ endpoint' = endpoint + 1
                  /\ disc_pc' = Caught(turn.raised, "api")
                  /\ UNCHANGED <<api_fonts, discovered>>
             ELSE \* return None
                  /\ api_fonts' = None
                  /\ DiscoverAfter(None, Caught(turn.raised, "web"))
                  /\ UNCHANGED endpoint
    /\ UNCHANGED <<web_fonts, imported, known_fonts, available_potential>>
    /\ UNCHANGED <<font_list, backend, files, startFiles, phase, requests,
                   fetcherVars, bulkVars, mainVars, installerVars>>

\* The HTML of the website, as the two regular expressions see it: the matches of
\* json_pattern (each a JSON list, or text json.loads rejects) and the matches of
\* href_pattern (made of the letters a-z and the hyphen).
InvalidJson == [kind |-> "invalid", list |-> <<>>]
JsonMatches == {InvalidJson} \cup {ListValue(l) : l \in JsonLists}
HrefCandidates ==
    { <<"a", "-", "b">>, <<"c", "-", "d">>, <<"a", "b", "c">>,
      <<"w", "w", "w", "-", "a">>, <<"-", "a">> }
MatchLists == UNION {[1..n -> JsonMatches] : n \in 0..MaxMatches}
HrefLists == UNION {[1..n -> HrefCandidates] : n \in 0..MaxHrefs}
Htmls == [matches : MatchLists, hrefs : HrefLists]

\* What the website answers.
NoHtml == [matches |-> <<>>, hrefs |-> <<>>]
WebResponses ==
    [kind : {"error", "status"}, html : {NoHtml}]
    \cup [kind : {"html"}, html : Htmls]

RECURSIVE ParseMatches(_, _)
\* for match in matches, from match i on: the first list that gives names, or raises
ParseMatches(matches, i) ==
    IF i > Len(matches) THEN [raised |-> FALSE, found |-> FALSE, fonts |-> <<>>]
    ELSE IF matches[i].kind # "list" THEN ParseMatches(matches, i + 1)
    ELSE LET data == [k \in Range(possible_keys) |->
                         IF k = "fonts" THEN matches[i] ELSE AbsentValue]
         IN IF ExtractRaises(data)
            THEN [raised |-> TRUE, found |-> FALSE, fonts |-> <<>>]
            ELSE IF Len(ExtractFontNames(data)) > 0
            THEN [raised |-> FALSE, found |-> TRUE, fonts |-> ExtractFontNames(data)]
            ELSE ParseMatches(matches, i + 1)

\* len(name) > 2 and '-' in name and not name.startswith('www')
LooksLikeFont(name) ==
    /\ Len(name) > 2
    /\ "-" \in Range(name)
    /\ ~(Len(name) >= 3 /\ SubSeq(name, 1, 3) = <<"w", "w", "w">>)

\* list(set(fonts)): the elements once each, in whatever order the set gives.
ListsOfSet(S) == {o \in [1..Cardinality(S) -> S] : Range(o) = S}

\* The values the scan of the href attributes can give.
HrefFonts(hrefs) ==
    LET fonts == SelectSeq(hrefs, LooksLikeFont)
    IN IF Len(fonts) > 0 THEN {ListOf(o) : o \in ListsOfSet(Range(fonts))}
       ELSE {ListOf(<<>>)}

\* The values _try_website_parsing can return for HTML whose JSON matches come to
\* parsed and whose href scan can give scanned.
HtmlResults(parsed, scanned) ==
    IF parsed.raised THEN {None}
    ELSE IF parsed.found THEN {ListOf(parsed.fonts)}
    ELSE scanned

\* The values _try_website_parsing can return for a response.
WebsiteResults(response) ==
    IF response.kind # "html" THEN {None}
    ELSE HtmlResults(ParseMatches(response.html.matches, 1),
                     HrefFonts(response.html.hrefs))

\* session.get, or _parse_fonts_from_html, raises.
WebsiteRaises(response) ==
    \/ response.kind = "error"
    \/ response.kind = "html" /\ ParseMatches(response.html.matches, 1).raised

\* What a call of _try_website_parsing can come to, over all of WebResponses: the
\* value it returns, whether something raised, whether it failed.  The HTML
\* responses are gone through by what their JSON matches come to and what their
\* href scan can give, Htmls being every pairing of the two.
WebsiteCalls ==
    { [fonts |-> None, raised |-> TRUE, failed |-> TRUE],      \* "error"
      [fonts |-> None, raised |-> FALSE, failed |-> TRUE] }    \* "status"
    \cup UNION { { [fonts |-> fonts, raised |-> parsed.raised, failed |-> parsed.raised] :
                    fonts \in HtmlResults(parsed, scanned) } :
                  parsed \in {ParseMatches(matches, 1) : matches \in MatchLists},
                  scanned \in {HrefFonts(hrefs) : hrefs \in HrefLists} }

\* _try_website_parsing, and discover_fonts' check of what it returns.
TryWebsiteParsing ==
    /\ main_pc = "running"
    /\ disc_pc = "web"
    /\ calls' = Append(calls, "web")
    /\ \E call \in WebsiteCalls :
          /\ web_fonts' = call.fonts
          /\ failures' = IF call.failed THEN failures \cup {"web"} ELSE failures
          /\ DiscoverAfter(call.fonts, Caught(call.raised, "fallback"))
    /\ UNCHANGED <<endpoint, api_fonts, imported, known_fonts, available_potential>>
    /\ UNCHANGED <<font_list, backend, files, startFiles, phase, requests,
                   fetcherVars, bulkVars, mainVars, installerVars>>

\* The list _get_fallback_fonts returns when font_list cannot be imported.
BuiltinFonts ==
    << <<"s", "a", "t", "o", "s", "h", "i">>,
       <<"c", "a", "b", "i", "n", "e", "t", "-", "g", "r", "o", "t", "e", "s", "k">>,
       <<"c", "l", "a", "s", "h", "-", "d", "i", "s", "p", "l", "a", "y">>,
       <<"g", "e", "n", "e", "r", "a", "l", "-", "s", "a", "n", "s">>,
       <<"s", "w", "i", "t", "z", "e", "r">>,
       <<"c", "l", "a", "s", "h", "-", "g", "r", "o", "t", "e", "s", "k">>,
       <<"s", "u", "p", "r", "e", "m", "e">>,
       <<"a", "u", "t", "h", "o", "r">>,
       <<"z", "o", "d", "i", "a", "k">>,
       <<"e", "i", "k", "o">>,
       <<"f", "r", "a", "k", "t", "i", "o", "n">>,
       <<"s", "o", "h", "n", "e">>,
       <<"c", "h", "i", "l", "l", "a", "x">> >>

\* POTENTIAL_FONTS[:10]
PotentialLimit == 10

\* The contents font_list.py may give FONTSHARE_FONTS and POTENTIAL_FONTS.
ModuleNames == {<<"a", "b">>, <<"c", "-", "d">>}
FontLists == UNION {[1..n -> ModuleNames] : n \in 0..MaxKnown}

\* What requests.head answers in _test_font_availability.
ProbeOutcomes == {"200", "404", "error"}

\* _test_font_availability(font): response.status_code == 200, False on any error
TestFontAvailability(outcome) == outcome = "200"

RECURSIVE AvailablePotential(_, _, _)
\* the loop over POTENTIAL_FONTS[:10], from candidate i on
AvailablePotential(tested, probe, i) ==
    IF i > Len(tested) THEN <<>>
    ELSE (IF TestFontAvailability(probe[i]) THEN <<tested[i]>> ELSE <<>>)
         \o AvailablePotential(tested, probe, i + 1)

\* _get_fallback_fonts, whose value discover_fonts returns.
GetFallbackFonts ==
    /\ main_pc = "running"
    /\ disc_pc = "fallback"
    /\ calls' = Append(calls, "fallback")
    /\ \/ \* except ImportError
          /\ imported' = FALSE
          /\ UNCHANGED <<known_fonts, available_potential, failures>>
          /\ discovered' = ListOf(BuiltinFonts)
       \/ \E FONTSHARE_FONTS \in FontLists, POTENTIAL_FONTS \in FontLists :
             LET tested == SubSeq(POTENTIAL_FONTS, 1,
                                  IF Len(POTENTIAL_FONTS) < PotentialLimit
                                  THEN Len(POTENTIAL_FONTS) ELSE PotentialLimit)
             IN \E probe \in [1..Len(tested) -> ProbeOutcomes] :
                   /\ imported' = TRUE
                   /\ failures' = IF \E i \in DOMAIN probe : probe[i] # "200"
                                   THEN failures \cup {"probe"} ELSE failures
                   /\ known_fonts' = FONTSHARE_FONTS
                   /\ available_potential' = AvailablePotential(tested, probe, 1)
                   /\ discovered' =
                          ListOf(FONTSHARE_FONTS \o AvailablePotential(tested, probe, 1))
    /\ disc_pc' = "done"
    /\ UNCHANGED <<endpoint, api_fonts, web_fonts>>
    /\ UNCHANGED <<font_list, backend, files, startFiles, phase, requests,
                   fetcherVars, bulkVars, mainVars, installerVars>>

\* The variables discover_fonts works on.
strategyVars == <<disc_pc, endpoint, calls, api_fonts, web_fonts, imported,
                  known_fonts, available_potential, discovered, failures>>

\* main: FontshareDownloader(...) creates the output directories outside the try
\* block, then asyncio.run(downloader.run()) calls discover_fonts.
Construct ==
    /\ main_pc = "start"
    /\ \/ \* _setup_directories: mkdir raises, nothing catches it
          /\ main_pc' = "exited"
          /\ exit_code' = 1
          /\ UNCHANGED disc_pc
       \/ \* run: font_list = await self.discover_fonts(session)
          /\ main_pc' = "running"
          /\ disc_pc' = "api"
          /\ UNCHANGED exit_code
    /\ UNCHANGED <<endpoint, calls, api_fonts, web_fonts, imported, known_fonts,
                   available_potential, discovered, failures, downloads_started>>
    /\ UNCHANGED <<font_list, backend, files, startFiles, phase, requests,
                   fetcherVars, bulkVars, installerVars>>

\* run, once discover_fonts has returned: "if not font_list: ... return", after
\* which main returns; otherwise download_all_fonts is called.
RunAfterDiscovery ==
    /\ main_pc = "running"
    /\ disc_pc = "done"
    /\ IF ~FontsFound(discovered)
       THEN /\ main_pc' = "exited"
            /\ exit_code' = 0
            /\ UNCHANGED downloads_started
       ELSE /\ main_pc' = "downloading"
            /\ downloads_started' = TRUE
            /\ UNCHANGED exit_code
    /\ UNCHANGED strategyVars
    /\ UNCHANGED <<font_list, backend, files, startFiles, phase, requests,
                   fetcherVars, bulkVars, installerVars>>

\* download_all_fonts returns, raises (the metadata file cannot be written) or is
\* interrupted: run prints the totals, or main prints the error, and main returns.
DownloadsEnd ==
    /\ main_pc = "downloading"
    /\ main_pc' = "exited"
    /\ exit_code' = 0
    /\ UNCHANGED <<downloads_started, strategyVars>>
    /\ UNCHANGED <<font_list, backend, files, startFiles, phase, requests,
                   fetcherVars, bulkVars, installerVars>>

\* KeyboardInterrupt while discover_fonts runs: main prints and returns.
DiscoveryInterrupted ==
    /\ main_pc = "running"
    /\ disc_pc # "done"
    /\ main_pc' = "exited"
    /\ exit_code' = 0
    /\ UNCHANGED <<downloads_started, strategyVars>>
    /\ UNCHANGED <<font_list, backend, files, startFiles, phase, requests,
                   fetcherVars, bulkVars, installerVars>>

\* main is called; nothing is being downloaded.
DiscoveryInit ==
    /\ InstallerIdle
    /\ font_list = <<>>
    /\ backend = [id \in Identifiers |-> "ok"]
    /\ files = [id \in Identifiers |-> NoFile]
    /\ startFiles = files
    /\ requests = [id \in Identifiers |-> 0]
    /\ phase = "discovering"
    /\ FetcherIdle
    /\ BulkIdle
    /\ main_pc = "start"
    /\ exit_code = NoExit
    /\ downloads_started = FALSE
    /\ disc_pc = "idle"
    /\ endpoint = 1
    /\ calls = <<>>
    /\ api_fonts = None
    /\ web_fonts = None
    /\ imported = FALSE
    /\ known_fonts = <<>>
    /\ available_potential = <<>>
    /\ discovered = None
    /\ failures = {}

DiscoveryNext ==
    \/ Construct
    \/ TryApiEndpoint
    \/ TryWebsiteParsing
    \/ GetFallbackFonts
    \/ RunAfterDiscovery
    \/ DownloadsEnd
    \/ DiscoveryInterrupted

SpecDiscovery == DiscoveryInit /\ [][DiscoveryNext]_vars

\* ------------------------------------------------------------------ proper_font_installer.py
\* Everything the downloader scripts keep; no installer script touches it.
downloaderVars == <<font_list, backend, files, startFiles, phase, requests,
                    fetcherVars, bulkVars, discoveryVars>>

\* No downloader script is running.
DownloaderIdle ==
    /\ font_list = <<>>
    /\ backend = [id \in Identifiers |-> "ok"]
    /\ files = [id \in Identifiers |-> NoFile]
    /\ startFiles = files
    /\ requests = [id \in Identifiers |-> 0]
    /\ phase = "installing"
    /\ FetcherIdle
    /\ BulkIdle
    /\ DiscoveryIdle

\* The entries of an archive, by the extension of their file name.
EntryKinds == {"ttf", "woff", "txt"}

\* An archive on disk: its entries, and where reading it fails.  fails_at = 0:
\* zipfile.ZipFile(zip_path) raises; fails_at = k: zip_ref.extract raises on
\* entry k; fails_at = Len(entries) + 1: nothing raises.
Archives ==
    UNION {[entries : [1..n -> EntryKinds], fails_at : 0..(n + 1)] : n \in 0..MaxFiles}

\* font_extensions = {'.ttf', '.otf'}
ProperExtensions == {"ttf"}

\* The entries whose name ends with one of the extensions, by position.
Accepted(archive, font_extensions) ==
    {k \in 1..Len(archive.entries) : archive.entries[k] \in font_extensions}

\* Where extraction stops.  Only an accepted entry is read (zip_ref.extract),
\* so a bad entry that is not accepted raises nothing.
RaisedAt(archive, font_extensions) ==
    IF archive.fails_at = 0 THEN 0
    ELSE IF archive.fails_at \in Accepted(archive, font_extensions)
         THEN archive.fails_at
         ELSE Len(archive.entries) + 1

\* extract_fonts_from_zip: the accepted entries in archive order; the except
\* clause prints and the function returns the font_files appended so far.
ExtractFontsFromZip(archive, font_extensions) ==
    LET stop == RaisedAt(archive, font_extensions)
        before == SubSeq(archive.entries, 1, stop - 1)
    IN [font_files |-> SelectSeq(before, LAMBDA kind : kind \in font_extensions),
        raised |-> stop <= Len(archive.entries)]

\* What an installer can find in an archive, as far as extract sees it: the
\* font files it gets, whether reading raised, how many entries had an
\* accepted extension.
Extractions(extract(_), font_extensions) ==
    {[font_files |-> extract(archive).font_files,
      raised |-> extract(archive).raised,
      accepted |-> Cardinality(Accepted(archive, font_extensions))] :
        archive \in Archives}

\* What one installation method did: which target it wrote to, whether its
\* copy and its registration completed, and what it returned.
Attempt(method, scope, copied, registered) ==
    [method |-> method, scope |-> scope, copied |-> copied,
     registered |-> registered, ok |-> copied /\ registered]

\* How a copy-then-register method can end.
MethodOutcomes == {"copy_raises", "register_fails", "completes"}

\* "if self.<method>(font_path): return True", else on to the next method.
AfterMethodKeepsTrying(ok, next) == next
AfterMethod(ok, next) == IF ok THEN "file_done" ELSE next

\* After the last archive the loop ends; otherwise the next archive is extracted.
NextPackage == IF zip_index = zip_count THEN "refresh" ELSE "extract"

\* run, up to the loop: without the directory or without archives it returns.
ProperStart ==
    /\ inst_pc = "start"
    /\ inst_pc' = IF zip_count = 0 THEN "done" ELSE "extract"
    /\ UNCHANGED <<runVars, zip_index, font_files, file_index,
                   package_success, attempts, file_result, tallies, package,
                   broadcasts, system_target_used, extractVars, downloaderVars>>

\* One turn of "for zip_file in zip_files" up to the inner loop.
ProperExtract ==
    /\ inst_pc = "extract"
    /\ \E extraction \in Extractions(LAMBDA archive :
                                        ExtractFontsFromZip(archive, ProperExtensions),
                                      ProperExtensions) :
          LET found == extraction.font_files # <<>>
          IN /\ font_files' = extraction.font_files
             /\ package' = [accepted |-> extraction.accepted,
                            extracted |-> Len(extraction.font_files),
                            read_failed |-> extraction.raised,
                            installed |-> 0,
                            counted |-> IF found THEN "pending" ELSE "nowhere"]
             /\ inst_pc' = IF found THEN "winapi" ELSE NextPackage
             /\ zip_index' = IF found THEN zip_index ELSE zip_index + 1
    /\ file_index' = 1
    /\ package_success' = TRUE
    /\ attempts' = <<>>
    /\ UNCHANGED <<runVars, file_result, tallies, broadcasts,
                   system_target_used, extractVars, downloaderVars>>

\* total_fonts += 1, then install_font_winapi_method: copy to the system
\* directory if is_admin() else to the user directory, AddFontResourceW, and a
\* WM_FONTCHANGE broadcast when it added fonts.
InstallFontWinapiMethod ==
    /\ inst_pc = "winapi"
    /\ \E outcome \in MethodOutcomes :
          LET attempt == Attempt("winapi", IF is_admin THEN "System" ELSE "User",
                                 outcome # "copy_raises", outcome = "completes")
          IN /\ attempts' = <<attempt>>
             /\ broadcasts' = IF attempt.ok THEN broadcasts + 1 ELSE broadcasts
             /\ file_result' = InstallResult(attempt.ok)
             /\ inst_pc' = AfterMethod(attempt.ok, "user")
    /\ tallies' = [tallies EXCEPT !.total_fonts = @ + 1]
    /\ system_target_used' = (system_target_used \/ is_admin)
    /\ UNCHANGED <<runVars, zip_index, font_files, file_index,
                   package_success, package, extractVars, downloaderVars>>

\* install_font_user_method, then "if self.is_admin() and ...": without
\* privilege install_font returns False here.
InstallFontUserMethod ==
    /\ inst_pc = "user"
    /\ \E outcome \in MethodOutcomes :
          LET attempt == Attempt("user", "User",
                                 outcome # "copy_raises", outcome = "completes")
          IN /\ attempts' = Append(attempts, attempt)
             /\ file_result' = InstallResult(attempt.ok)
             /\ inst_pc' = AfterMethod(attempt.ok,
                                       IF is_admin THEN "system" ELSE "file_done")
    /\ UNCHANGED <<runVars, zip_index, font_files, file_index,
                   package_success, tallies, package, broadcasts,
                   system_target_used, extractVars, downloaderVars>>

\* install_font_system_method, the last of install_font.
InstallFontSystemMethod ==
    /\ inst_pc = "system"
    /\ \E outcome \in MethodOutcomes :
          LET attempt == Attempt("system", "System",
                                 outcome # "copy_raises", outcome = "completes")
          IN /\ attempts' = Append(attempts, attempt)
             /\ file_result' = InstallResult(attempt.ok)
    /\ inst_pc' = "file_done"
    /\ system_target_used' = TRUE
    /\ UNCHANGED <<runVars, zip_index, font_files, file_index,
                   package_success, tallies, package, broadcasts, extractVars, downloaderVars>>

\* Back in run with what install_font returned: package_success, the next
\* font file, and after the last one "if package_success: success_count += 1".
ProperFileDone ==
    /\ inst_pc = "file_done"
    /\ LET success == package_success /\ file_result.installed
           last == file_index = Len(font_files)
           installed == package.installed + (IF file_result.installed THEN 1 ELSE 0)
       IN /\ package_success' = success
          /\ IF last
             THEN /\ tallies' = [tallies EXCEPT
                                   !.success_count = IF success THEN @ + 1 ELSE @]
                  /\ package' = [package EXCEPT
                                   !.installed = installed,
                                   !.counted = IF success THEN "success" ELSE "nowhere"]
                  /\ zip_index' = zip_index + 1
                  /\ inst_pc' = NextPackage
                  /\ UNCHANGED file_index
             ELSE /\ package' = [package EXCEPT !.installed = installed]
                  /\ file_index' = file_index + 1
                  /\ inst_pc' = "winapi"
                  /\ UNCHANGED <<tallies, zip_index>>
    /\ UNCHANGED <<runVars, font_files, attempts, file_result,
                   broadcasts, system_target_used, extractVars, downloaderVars>>

\* refresh_font_cache: one WM_FONTCHANGE broadcast; whatever it raises is
\* swallowed by the bare except.
RefreshFontCache ==
    /\ inst_pc = "refresh"
    /\ \E sent \in BOOLEAN :
          broadcasts' = IF sent THEN broadcasts + 1 ELSE broadcasts
    /\ inst_pc' = "done"
    /\ UNCHANGED <<runVars, zip_index, font_files, file_index,
                   package_success, attempts, file_result, tallies, package,
                   system_target_used, extractVars, downloaderVars>>

InstallInit ==
    /\ DownloaderIdle
    /\ ExtractIdle
    /\ is_admin \in BOOLEAN
    /\ os_type = "windows"
    /\ zip_count \in 0..MaxZips
    /\ zip_index = 1
    /\ font_files = <<>>
    /\ file_index = 1
    /\ package_success = TRUE
    /\ inst_pc = "start"
    /\ attempts = <<>>
    /\ file_result = InstallResult(FALSE)
    /\ tallies = [success_count |-> 0, total_fonts |-> 0]
    /\ package = NoPackage
    /\ broadcasts = 0
    /\ system_target_used = FALSE

InstallNext ==
    \/ ProperStart
    \/ ProperExtract
    \/ InstallFontWinapiMethod
    \/ InstallFontUserMethod
    \/ InstallFontSystemMethod
    \/ ProperFileDone
    \/ RefreshFontCache

SpecInstall == InstallInit /\ [][InstallNext]_vars

\* ------------------------------------------------------------------ install_fonts.py
\* font_extensions = {'.ttf', '.otf', '.woff', '.woff2', '.eot'}
FontsExtensions == {"ttf", "woff"}

OsTypes == {"windows", "darwin", "linux"}

\* _get_system_font_directory: %WINDIR%\Fonts on Windows, a directory under
\* the user's home elsewhere.
SystemFontDirScope == IF os_type = "windows" THEN "System" ELSE "User"

\* How install_font_windows can end.  The Fonts directory of Windows and the
\* HKEY_LOCAL_MACHINE key refuse a process without privilege.
WindowsOutcomes ==
    IF is_admin THEN MethodOutcomes ELSE {"copy_raises", "register_fails"}

\* install_font_simple_copy: shutil.copy2 and nothing else.
CopyAttempt(scope, copied) ==
    [method |-> "simple_copy", scope |-> scope, copied |-> copied,
     registered |-> FALSE, ok |-> copied]

\* install_font: install_font_windows on Windows, which catches every
\* Exception itself, install_font_simple_copy elsewhere.
InstallFontAttempts ==
    IF os_type = "windows"
    THEN {Attempt("windows", SystemFontDirScope, outcome # "copy_raises",
                  outcome = "completes") : outcome \in WindowsOutcomes}
    ELSE {CopyAttempt(SystemFontDirScope, copied) : copied \in BOOLEAN}

\* install_all_fonts returns after the last archive.
FontsNextPackage == IF zip_index = zip_count THEN "done" ELSE "extract"

NoInstallStats == [processed |-> 0, installed |-> 0, failed |-> 0]

\* install_all_fonts, up to the loop.
FontsStart ==
    /\ inst_pc = "start"
    /\ inst_pc' = IF zip_count = 0 THEN "done" ELSE "extract"
    /\ UNCHANGED <<runVars, zip_index, font_files, file_index,
                   package_success, attempts, file_result, tallies, package,
                   broadcasts, system_target_used, extractVars, downloaderVars>>

\* One turn of "for zip_path in zip_files" up to the inner loop.
FontsExtract ==
    /\ inst_pc = "extract"
    /\ \E extraction \in Extractions(LAMBDA archive :
                                        ExtractFontsFromZip(archive, FontsExtensions),
                                      FontsExtensions) :
          LET found == extraction.font_files # <<>>
          IN /\ font_files' = extraction.font_files
             /\ package' = [accepted |-> extraction.accepted,
                            extracted |-> Len(extraction.font_files),
                            read_failed |-> extraction.raised,
                            installed |-> 0,
                            counted |-> IF found THEN "pending" ELSE "failed"]
             /\ tallies' = [tallies EXCEPT !.processed = @ + 1,
                                           !.failed = IF found THEN @ ELSE @ + 1]
             /\ inst_pc' = IF found THEN "install" ELSE FontsNextPackage
             /\ zip_index' = IF found THEN zip_index ELSE zip_index + 1
    /\ file_index' = 1
    /\ package_success' = TRUE
    /\ attempts' = <<>>
    /\ UNCHANGED <<runVars, file_result, broadcasts, system_target_used,
                   extractVars, downloaderVars>>

\* One turn of "for font_file in font_files": install_font, zip_success, and
\* after the last font file the installed or the failed count.
FontsInstallFont ==
    /\ inst_pc = "install"
    /\ \E attempt \in InstallFontAttempts :
          LET success == package_success /\ attempt.ok
              last == file_index = Len(font_files)
              installed == package.installed + (IF attempt.ok THEN 1 ELSE 0)
          IN /\ attempts' = <<attempt>>
             /\ file_result' = InstallResult(attempt.ok)
             /\ system_target_used' = (system_target_used \/ attempt.scope = "System")
             /\ package_success' = success
             /\ IF last
                THEN /\ tallies' = [tallies EXCEPT
                                      !.installed = IF success THEN @ + 1 ELSE @,
                                      !.failed = IF success THEN @ ELSE @ + 1]
                     /\ package' = [package EXCEPT
                                      !.installed = installed,
                                      !.counted = IF success THEN "success" ELSE "failed"]
                     /\ zip_index' = zip_index + 1
                     /\ inst_pc' = FontsNextPackage
                     /\ UNCHANGED file_index
                ELSE /\ package' = [package EXCEPT !.installed = installed]
                     /\ file_index' = file_index + 1
                     /\ UNCHANGED <<tallies, zip_index, inst_pc>>
    /\ UNCHANGED <<runVars, font_files, broadcasts, extractVars, downloaderVars>>

InstallFontsInit ==
    /\ DownloaderIdle
    /\ ExtractIdle
    /\ is_admin \in BOOLEAN
    /\ os_type \in OsTypes
    /\ zip_count \in 0..MaxZips
    /\ zip_index = 1
    /\ font_files = <<>>
    /\ file_index = 1
    /\ package_success = TRUE
    /\ inst_pc = "start"
    /\ attempts = <<>>
    /\ file_result = InstallResult(FALSE)
    /\ tallies = NoInstallStats
    /\ package = NoPackage
    /\ broadcasts = 0
    /\ system_target_used = FALSE

InstallFontsNext ==
    \/ FontsStart
    \/ FontsExtract
    \/ FontsInstallFont

SpecInstallFonts == InstallFontsInit /\ [][InstallFontsNext]_vars

\* ------------------------------------------------------------------ advanced_font_installer.py
\* for ext in ['.ttf', '.otf']: font_files.extend(temp_path.rglob(f"*{ext}"))
AdvancedExtensions == {"ttf"}

\* zip_ref.extractall reads every entry, so a bad entry raises whatever its
\* name; the font files are looked for once everything is extracted.
ExtractAll(archive) ==
    LET raised == archive.fails_at <= Len(archive.entries)
    IN [font_files |-> IF raised THEN <<>>
                       ELSE SelectSeq(archive.entries,
                                      LAMBDA kind : kind \in AdvancedExtensions),
        raised |-> raised]

\* How register_font_in_registry can end: OpenKey raises, SetValueEx raises
\* for every name of registry_names, or one name is written.
RegistryOutcomes == {"open_raises", "no_name_written", "written"}

\* register_font_in_registry returns True after the loop over the names,
\* whether or not one of them was written, and False from the outer except.
RegisterFontInRegistry(outcome) == outcome # "open_raises"

\* install_single_font: shutil.copy2 (raising -> False), then the two
\* registrations, whose results registry_success and api_success are not
\* looked at, then "return True".
InstallSingleFont(copied, registry_success, api_success) == copied

\* What install_single_font did on the system font directory; registered
\* tells whether a registry name was written or AddFontResourceW added fonts.
SingleFontAttempts ==
    {[method |-> "single", scope |-> "System", copied |-> FALSE,
      registered |-> FALSE, added |-> FALSE, ok |-> InstallSingleFont(FALSE, FALSE, FALSE)]}
    \cup
    {[method |-> "single", scope |-> "System", copied |-> TRUE,
      registered |-> (registry = "written" \/ added), added |-> added,
      ok |-> InstallSingleFont(TRUE, RegisterFontInRegistry(registry), added)] :
        registry \in RegistryOutcomes, added \in BOOLEAN}

\* The loop of install_all_fonts_system ends with the summary.
AdvancedNextPackage == IF zip_index = zip_count THEN "done" ELSE "extract"

\* install_all_fonts_system up to the loop: without privilege it prints that
\* administrator privileges are required and returns.
AdvancedStart ==
    /\ inst_pc = "start"
    /\ inst_pc' = IF ~is_admin \/ zip_count = 0 THEN "done" ELSE "extract"
    /\ UNCHANGED <<runVars, zip_index, font_files, file_index,
                   package_success, attempts, file_result, tallies, package,
                   broadcasts, system_target_used, extractVars, downloaderVars>>

\* One turn of "for zip_file in zip_files" up to the inner loop: extractall,
\* the search for font files; an exception ends the turn.
AdvancedExtract ==
    /\ inst_pc = "extract"
    /\ \E extraction \in Extractions(ExtractAll, AdvancedExtensions) :
          LET found == extraction.font_files # <<>>
          IN /\ font_files' = extraction.font_files
             /\ package' = [accepted |-> extraction.accepted,
                            extracted |-> Len(extraction.font_files),
                            read_failed |-> extraction.raised,
                            installed |-> 0,
                            counted |-> IF found THEN "pending" ELSE "nowhere"]
             /\ inst_pc' = IF found THEN "install" ELSE AdvancedNextPackage
             /\ zip_index' = IF found THEN zip_index ELSE zip_index + 1
    /\ file_index' = 1
    /\ package_success' = TRUE
    /\ attempts' = <<>>
    /\ UNCHANGED <<runVars, file_result, tallies, broadcasts,
                   system_target_used, extractVars, downloaderVars>>

\* One turn of "for font_file in font_files": total_fonts += 1,
\* install_single_font into the system font directory (add_font_resource
\* broadcasts WM_FONTCHANGE when it added fonts), package_success, and after
\* the last font file success_count.
AdvancedInstallSingleFont ==
    /\ inst_pc = "install"
    /\ \E attempt \in SingleFontAttempts :
          LET success == package_success /\ attempt.ok
              last == file_index = Len(font_files)
              installed == package.installed + (IF attempt.ok THEN 1 ELSE 0)
          IN /\ attempts' = <<attempt>>
             /\ file_result' = InstallResult(attempt.ok)
             /\ broadcasts' = IF attempt.added THEN broadcasts + 1 ELSE broadcasts
             /\ package_success' = success
             /\ IF last
                THEN /\ tallies' = [tallies EXCEPT
                                      !.total_fonts = @ + 1,
                                      !.success_count = IF success THEN @ + 1 ELSE @]
                     /\ package' = [package EXCEPT
                                      !.installed = installed,
                                      !.counted = IF success THEN "success" ELSE "nowhere"]
                     /\ zip_index' = zip_index + 1
                     /\ inst_pc' = AdvancedNextPackage
                     /\ UNCHANGED file_index
                ELSE /\ tallies' = [tallies EXCEPT !.total_fonts = @ + 1]
                     /\ package' = [package EXCEPT !.installed = installed]
                     /\ file_index' = file_index + 1
                     /\ UNCHANGED <<zip_index, inst_pc>>
    /\ system_target_used' = TRUE
    /\ UNCHANGED <<runVars, font_files, extractVars, downloaderVars>>

AdvancedInit == InstallInit

AdvancedNext ==
    \/ AdvancedStart
    \/ AdvancedExtract
    \/ AdvancedInstallSingleFont

SpecAdvanced == AdvancedInit /\ [][AdvancedNext]_vars

\* ------------------------------------------------------------------ quick_install_fonts.py
\* The directory install_fonts_simple writes to: the user's font directory,
\* or the system one when user_fonts.mkdir raised.
InstallTypes == {"User", "System"}

\* The loop of install_fonts_simple ends with the summary.
QuickNextPackage == IF zip_index = zip_count THEN "done" ELSE "extract"

\* install_fonts_simple up to the loop.
QuickStart ==
    /\ inst_pc = "start"
    /\ inst_pc' = IF zip_count = 0 THEN "done" ELSE "extract"
    /\ UNCHANGED <<runVars, zip_index, font_files, file_index,
                   package_success, attempts, file_result, tallies, package,
                   broadcasts, system_target_used, extractVars, downloaderVars>>

\* One turn of "for zip_file in zip_files" up to the inner loop: extractall,
\* the search for .ttf and .otf files; an exception ends the turn.
QuickExtract ==
    /\ inst_pc = "extract"
    /\ \E extraction \in Extractions(ExtractAll, AdvancedExtensions) :
          LET found == extraction.font_files # <<>>
          IN /\ font_files' = extraction.font_files
             /\ package' = [accepted |-> extraction.accepted,
                            extracted |-> Len(extraction.font_files),
                            read_failed |-> extraction.raised,
                            installed |-> 0,
                            counted |-> IF found THEN "pending" ELSE "nowhere"]
             /\ inst_pc' = IF found THEN "install" ELSE QuickNextPackage
             /\ zip_index' = IF found THEN zip_index ELSE zip_index + 1
    /\ file_index' = 1
    /\ attempts' = <<>>
    /\ UNCHANGED <<runVars, package_success, file_result, tallies, broadcasts,
                   system_target_used, extractVars, downloaderVars>>

\* After the inner loop: installed_count += 1, whatever the copies did.
QuickInstalledCount(count, every_copy_worked) == count + 1

\* One turn of "for font_file in font_files": shutil.copy2 inside its own
\* try/except, and after the last font file installed_count.
QuickCopy ==
    /\ inst_pc = "install"
    /\ \E copied \in BOOLEAN :
          LET attempt == CopyAttempt(install_type, copied)
              last == file_index = Len(font_files)
              installed == package.installed + (IF copied THEN 1 ELSE 0)
          IN /\ attempts' = <<attempt>>
             /\ file_result' = InstallResult(attempt.ok)
             /\ IF last
                THEN /\ tallies' = [tallies EXCEPT !.installed_count =
                                      QuickInstalledCount(@, installed = package.extracted)]
                     /\ package' = [package EXCEPT !.installed = installed,
                                                   !.counted = "success"]
                     /\ zip_index' = zip_index + 1
                     /\ inst_pc' = QuickNextPackage
                     /\ UNCHANGED file_index
                ELSE /\ package' = [package EXCEPT !.installed = installed]
                     /\ file_index' = file_index + 1
                     /\ UNCHANGED <<tallies, zip_index, inst_pc>>
    /\ system_target_used' = (system_target_used \/ install_type = "System")
    /\ UNCHANGED <<runVars, font_files, package_success, broadcasts,
                   extractVars, downloaderVars>>

QuickInit ==
    /\ DownloaderIdle
    /\ is_admin \in BOOLEAN
    /\ os_type = "windows"
    /\ zip_count \in 0..MaxZips
    /\ install_type \in InstallTypes
    /\ script = "quick_install_fonts"
    /\ choice = "unasked"
    /\ target_files = {}
    /\ staged = {}
    /\ cleaned = FALSE
    /\ zip_index = 1
    /\ font_files = <<>>
    /\ file_index = 1
    /\ package_success = TRUE
    /\ inst_pc = "start"
    /\ attempts = <<>>
    /\ file_result = InstallResult(FALSE)
    /\ tallies = [installed_count |-> 0]
    /\ package = NoPackage
    /\ broadcasts = 0
    /\ system_target_used = FALSE

QuickNext ==
    \/ QuickStart
    \/ QuickExtract
    \/ QuickCopy

SpecQuick == QuickInit /\ [][QuickNext]_vars

\* ------------------------------------------------------------------ extract_all_fonts.py, fix_fonts.py
\* The scripts that put the font files of every archive into a font
\* directory: extract_all_fonts.py and fix_fonts.py into the user's font
\* directory, install_fonts.py into self.system_font_dir.
ExtractScripts == {"extract_all_fonts", "fix_fonts", "install_fonts"}

\* The name of an archive entry or of a file: the directories in front of
\* the file name, the file name's stem and its extension as written.
ArchiveEntryNames ==
    [dirs : {<<>>, <<"d">>, <<"..">>, <<"..", "d">>}, stem : {"x"},
     ext : {"ttf", "TTF", "txt"}]

\* What the user's font directory can hold before the run.
ExistingFiles ==
    {[dirs |-> <<>>, stem |-> "old", ext |-> "ttf"],
     [dirs |-> <<>>, stem |-> "old", ext |-> "txt"]}

\* An archive whose entries have names; fails_at as in Archives.
NameArchives ==
    UNION {[entries : [1..n -> ArchiveEntryNames], fails_at : 0..(n + 1)] : n \in 0..MaxFiles}

\* str.lower() on an extension.
LowerExt(ext) == IF ext = "TTF" THEN "ttf" ELSE ext

\* file_info.filename.lower().endswith(('.ttf', '.otf'))
EndsWithFontExtension(name, font_extensions) == LowerExt(name.ext) \in font_extensions

\* clean_name = Path(file_info.filename).name, font_path.name, $font.Name
PathName(name) == [name EXCEPT !.dirs = <<>>]

\* zip_ref.extract(file_info, self.temp_dir) keeps the directories of the
\* entry below the temporary directory and drops ".." components.
ExtractedPath(name) == [name EXCEPT !.dirs = SelectSeq(@, LAMBDA part : part # "..")]

\* The entries of an archive that are read before reading stops: those with
\* an accepted extension, up to the first of them that raises; their names
\* and how many they are.
EntriesRead(archive, font_extensions) ==
    LET accepted == {k \in 1..Len(archive.entries) :
                        EndsWithFontExtension(archive.entries[k], font_extensions)}
        stop == IF archive.fails_at \in accepted \cup {0} THEN archive.fails_at
                ELSE Len(archive.entries) + 1
        read == {a \in accepted : a < stop}
    IN [names |-> {archive.entries[k] : k \in read}, count |-> Cardinality(read)]

\* The archives as these scripts see them: the set of entries read.
EntriesReadOf(font_extensions) ==
    {EntriesRead(archive, font_extensions) : archive \in NameArchives}

\* What one archive gives extract_all_fonts.py and fix_fonts.py, and what
\* it gives install_fonts.py.
TtfOtfEntriesRead == EntriesReadOf(ProperExtensions)
FontsEntriesRead == EntriesReadOf(FontsExtensions)

\* existing_font.is_file() and existing_font.suffix.lower() in ['.ttf', '.otf']
IsFontFile(file) == file.dirs = <<>> /\ LowerExt(file.ext) \in ProperExtensions

\* After the last archive extract_all_fonts.py and install_fonts.py are
\* done; fix_fonts.py runs its PowerShell script.
ExtractNextArchive ==
    IF zip_index < zip_count THEN "extract"
    ELSE IF script = "fix_fonts" THEN "powershell" ELSE "done"

AfterPreClean == IF zip_count = 0 THEN ExtractNextArchive ELSE "extract"

\* extract_all_fonts.py, main: "Clearing existing fonts...", every font file
\* directly in user_fonts is unlinked (an unlink that raises is passed over).
ExtractAllClear ==
    /\ script = "extract_all_fonts"
    /\ inst_pc = "start"
    /\ \E cleared \in SUBSET {file \in target_files : IsFontFile(file)} :
          /\ target_files' = target_files \ cleared
          /\ tallies' = [tallies EXCEPT !.cleared_count = Cardinality(cleared)]
    /\ cleaned' = TRUE
    /\ inst_pc' = AfterPreClean
    /\ UNCHANGED <<runVars, zip_index, font_files, file_index, package_success,
                   attempts, file_result, package, broadcasts,
                   system_target_used, staged, downloaderVars>>

\* fix_fonts.py, main: input("... clear existing user fonts first? (y/n)"),
\* and on "y" clear_user_fonts: shutil.rmtree(user_fonts), which removes
\* the directory with everything in it or raises part of the way.
FixAsk ==
    /\ script = "fix_fonts"
    /\ inst_pc = "start"
    /\ \E answer \in {"y", "n"} :
          /\ choice' = answer
          /\ IF answer = "y"
             THEN /\ \E removed \in SUBSET target_files :
                        target_files' = target_files \ removed
                  /\ cleaned' = TRUE
             ELSE UNCHANGED <<target_files, cleaned>>
    /\ inst_pc' = AfterPreClean
    /\ UNCHANGED <<is_admin, os_type, zip_count, install_type, script,
                   zip_index, font_files, file_index, package_success,
                   attempts, file_result, tallies, package, broadcasts,
                   system_target_used, staged, downloaderVars>>

\* install_fonts.py has no pre-clean.
FontsBegin ==
    /\ script = "install_fonts"
    /\ inst_pc = "start"
    /\ inst_pc' = AfterPreClean
    /\ UNCHANGED <<runVars, zip_index, font_files, file_index, package_success,
                   attempts, file_result, tallies, package, broadcasts,
                   system_target_used, extractVars, downloaderVars>>

\* extract_all_fonts.py, one turn of "for i, zip_file in enumerate(zip_files, 1)":
\* every entry read is written to user_fonts / clean_name.
ExtractAllArchive ==
    /\ script = "extract_all_fonts"
    /\ inst_pc = "extract"
    /\ \E entries \in TtfOtfEntriesRead :
          /\ target_files' = target_files \cup {PathName(name) : name \in entries.names}
          /\ tallies' = [tallies EXCEPT !.total_fonts = @ + entries.count]
    /\ zip_index' = zip_index + 1
    /\ inst_pc' = ExtractNextArchive
    /\ UNCHANGED <<runVars, font_files, file_index, package_success,
                   attempts, file_result, package, broadcasts,
                   system_target_used, staged, cleaned, downloaderVars>>

\* fix_fonts.py, install_fonts_powershell, one turn of "for zip_file in zip_files":
\* every entry read is written to all_fonts_dir / clean_name.
FixArchive ==
    /\ script = "fix_fonts"
    /\ inst_pc = "extract"
    /\ \E entries \in TtfOtfEntriesRead :
          /\ staged' = staged \cup {PathName(name) : name \in entries.names}
          /\ tallies' = [tallies EXCEPT !.font_count = @ + entries.count]
    /\ zip_index' = zip_index + 1
    /\ inst_pc' = ExtractNextArchive
    /\ UNCHANGED <<runVars, font_files, file_index, package_success,
                   attempts, file_result, package, broadcasts,
                   system_target_used, target_files, cleaned, downloaderVars>>

\* fix_fonts.py, the PowerShell script: every *.ttf and *.otf file found under
\* all_fonts_dir is copied to the user's font directory under $font.Name; a
\* copy that fails is counted and passed over, and the script ends with one
\* WM_FONTCHANGE broadcast (if it ran at all).
FixPowerShell ==
    /\ script = "fix_fonts"
    /\ inst_pc = "powershell"
    /\ \E copied \in SUBSET {file \in staged : LowerExt(file.ext) \in ProperExtensions} :
          target_files' = target_files \cup {PathName(file) : file \in copied}
    /\ \E ran \in BOOLEAN : broadcasts' = IF ran THEN broadcasts + 1 ELSE broadcasts
    /\ inst_pc' = "done"
    /\ UNCHANGED <<runVars, zip_index, font_files, file_index, package_success,
                   attempts, file_result, tallies, package,
                   system_target_used, staged, cleaned, downloaderVars>>

\* install_fonts.py, one turn of "for zip_path in zip_files": the entries read
\* are extracted below temp_dir, each extracted file is handed to
\* install_font, which copies it to system_font_dir / font_path.name (and on
\* Windows registers it), and the archive is counted.
FontsArchive ==
    /\ script = "install_fonts"
    /\ inst_pc = "extract"
    /\ \E entries \in FontsEntriesRead :
          LET extracted == {ExtractedPath(name) : name \in entries.names}
          IN /\ staged' = staged \cup extracted
             /\ \E copied \in SUBSET extracted :
                   \E every_file_installed \in {FALSE, copied = extracted /\ entries.count > 0} :
                       /\ target_files' = target_files \cup {PathName(file) : file \in copied}
                       /\ tallies' = [tallies EXCEPT
                                        !.processed = @ + 1,
                                        !.installed = IF every_file_installed THEN @ + 1 ELSE @,
                                        !.failed = IF every_file_installed THEN @ ELSE @ + 1]
    /\ zip_index' = zip_index + 1
    /\ inst_pc' = ExtractNextArchive
    /\ system_target_used' = (system_target_used \/ os_type = "windows")
    /\ UNCHANGED <<runVars, font_files, file_index, package_success,
                   attempts, file_result, package, broadcasts,
                   cleaned, downloaderVars>>

\* The counts each script keeps.
ExtractTallies ==
    IF script = "extract_all_fonts" THEN [cleared_count |-> 0, total_fonts |-> 0]
    ELSE IF script = "fix_fonts" THEN [font_count |-> 0]
    ELSE NoInstallStats

ExtractInit ==
    /\ DownloaderIdle
    /\ is_admin = FALSE
    /\ os_type = "windows"
    /\ zip_count \in 0..MaxZips
    /\ install_type = "User"
    /\ script \in ExtractScripts
    /\ choice = "unasked"
    /\ target_files \in SUBSET ExistingFiles
    /\ staged = {}
    /\ cleaned = FALSE
    /\ zip_index = 1
    /\ font_files = <<>>
    /\ file_index = 1
    /\ package_success = TRUE
    /\ inst_pc = "start"
    /\ attempts = <<>>
    /\ file_result = InstallResult(FALSE)
    /\ tallies = ExtractTallies
    /\ package = NoPackage
    /\ broadcasts = 0
    /\ system_target_used = FALSE

ExtractNext ==
    \/ ExtractAllClear
    \/ FixAsk
    \/ FontsBegin
    \/ ExtractAllArchive
    \/ FixArchive
    \/ FixPowerShell
    \/ FontsArchive

SpecExtract == ExtractInit /\ [][ExtractNext]_vars

\* ------------------------------------------------------------------ properties
Entries(id) == {t \in Tasks : font_list[t] = id}

\* Requests issued whose response is not yet fully handled.
InFlight == {t \in Tasks : pc[t] \in {"requested", "reading"}}

\* C1: at no time are more than max_concurrent archive requests in flight.
C1_ConcurrencyBound == Cardinality(InFlight) <= max_concurrent

\* The limit is reached while another task waits for a permit.
C1_Witness ==
    /\ Cardinality(InFlight) = max_concurrent
    /\ \E t \in Tasks : pc[t] = "waiting"

\* C2: an identifier whose archive was non-empty when the run started is never
\* requested in that run, and its archive file stays as it was.
C2_StoredArchiveUntouched ==
    \A id \in Identifiers :
        NonEmpty(startFiles[id]) => requests[id] = 0 /\ files[id] = startFiles[id]

\* A task has returned for an identifier whose archive was there from the start.
C2_Witness ==
    \E t \in Tasks :
        /\ pc[t] = "returned"
        /\ task_result[t]
        /\ NonEmpty(startFiles[font_list[t]])

C4_NoPartialArchive ==
    \A id \in Identifiers :
        NonEmpty(files[id]) => files[id].data = Body(id)

\* C5: when download_all_fonts returns, one outcome per list entry has been
\* collected and the statistics add up: total = N = success + failed.
C5_OneOutcomePerEntry ==
    phase = "done" =>
        /\ Len(results) = Len(font_list)
        /\ stats.total = Len(font_list)
        /\ stats.total = stats.success + stats.failed
        /\ stats.success = Cardinality({t \in Tasks : task_result[t]})

\* A run is over in which the tasks completed in another order than the list's.
C5_Witness ==
    /\ phase = "done"
    /\ Len(font_list) >= 2
    /\ stats.failed = 1
    /\ results[1] # task_result[1]

CanGoOn ==
    \/ \E t \in Tasks : ENABLED Enter(t)
    \/ \E t \in Tasks : ENABLED Response(t)
    \/ \E t \in Tasks : ENABLED ReadDone(t)
    \/ \E t \in Tasks : ENABLED SleepDone(t)
    \/ ENABLED Tick

\* C7: a failure of one entry never aborts the run: the run is never left by an
\* exception, the tasks not yet returned can always go on, and the run ends only
\* with every entry returned.
C7_FailureIsLocal ==
    /\ phase # "aborted"
    /\ phase = "running" /\ (\E t \in Tasks : pc[t] # "returned") => CanGoOn
    /\ phase = "done" => \A t \in Tasks : pc[t] = "returned"

\* A run is over in which one entry failed first and another succeeded after it.
C7_Witness ==
    /\ phase = "done"
    /\ Len(results) >= 2
    /\ ~results[1]
    /\ results[Len(results)]

\* C8 as stated: the final report lists every identifier that met an HTTP 404,
\* each with the reason "HTTP 404".
C8_FailureListedWithReason ==
    phase = "done" =>
        \A id \in Identifiers :
            backend[id] = "http404" /\ requests[id] > 0 =>
                \E j \in DOMAIN bulk_report.failed_fonts :
                    LET e == bulk_report.failed_fonts[j] IN
                    /\ e.name = id
                    /\ "reason" \in DOMAIN e
                    /\ e.reason = "HTTP 404"

\* The tasks that wrote their archive less than rate_limit ago.
InDelay == {t \in Tasks : slept[t] # NotWritten /\ slept[t] < rate_limit}

\* C9: a permit stays taken for rate_limit after a successful download: the
\* requests in flight and the downloads younger than rate_limit together never
\* exceed max_concurrent, and no task returns from a download before rate_limit
\* has passed.
C9_SlotHeldDuringDelay ==
    /\ Cardinality(InFlight) + Cardinality(InDelay) <= max_concurrent
    /\ \A t \in Tasks :
          pc[t] = "returned" /\ slept[t] # NotWritten => slept[t] >= rate_limit

\* With one permit: a download is over, its delay has passed, the next is requested.
C9_Witness ==
    /\ max_concurrent = 1
    /\ \E t1, t2 \in Tasks :
          /\ pc[t1] = "returned"
          /\ slept[t1] = rate_limit
          /\ pc[t2] = "requested"

\* A strategy returned a list with something in it.
NonEmptyList(fonts) == ~fonts.is_none /\ Len(fonts.list) > 0

\* The hard-coded list: FONTSHARE_FONTS, or the built-in one without font_list.py.
HardCodedList == IF imported THEN known_fonts ELSE BuiltinFonts

IgnoringCase(name) == [i \in 1..Len(name) |-> Lower(name[i])]

\* C11 as stated: the list discover_fonts returns is normalized (lower case,
\* hyphens for spaces) and has no two entries equal ignoring case.
C11_NormalizedAndUnique ==
    disc_pc = "done" =>
        /\ \A i \in DOMAIN discovered.list :
               discovered.list[i] = Normalize(discovered.list[i])
        /\ \A i, j \in DOMAIN discovered.list :
               i # j => IgnoringCase(discovered.list[i]) # IgnoringCase(discovered.list[j])

\* C12: no failure inside a strategy aborts discovery: discover_fonts is never
\* left by an exception, it can always go on until it has returned, and what it
\* returns is a list.
C12_DiscoveryNeverAborts ==
    /\ disc_pc \in {"idle", "api", "web", "fallback", "done"}
    /\ main_pc = "running" /\ disc_pc \in {"api", "web", "fallback"} =>
          ENABLED (TryApiEndpoint \/ TryWebsiteParsing \/ GetFallbackFonts)
    /\ disc_pc = "done" => ~discovered.is_none

\* Something failed in the API endpoints, in the website and in a probe, and
\* discover_fonts returned a list.
C12_Witness ==
    /\ disc_pc = "done"
    /\ failures = {"api", "web", "probe"}
    /\ ~discovered.is_none

\* C13 as stated: the exit code is not 0 exactly when the run cannot start (the
\* output directories cannot be created, or discovery gives no identifier), and
\* when discovery gives no identifier no download is started.
C13_ExitCodeTellsCannotStart ==
    main_pc = "exited" =>
        LET setup_failed == disc_pc = "idle"
            exhausted == disc_pc = "done" /\ ~NonEmptyList(discovered)
        IN /\ exit_code # 0 <=> (setup_failed \/ exhausted)
           /\ exhausted => ~downloads_started

\* The methods of install_font, in the order it calls them.
Chain == <<"winapi", "user", "system">>

\* C14: the installation chain for one font file tries its strategies in list
\* order and stops at the first one that succeeds: the methods tried so far
\* are the first ones of the chain, every one of them but the last has failed,
\* and the file ends installed exactly when the last one tried succeeded; so
\* when strategy 1 fails and strategy 2 succeeds the file is installed and
\* strategy 3 is not attempted.
C14_ChainStopsAtFirstSuccess ==
    /\ Len(attempts) <= Len(Chain)
    /\ \A i \in 1..Len(attempts) : attempts[i].method = Chain[i]
    /\ \A i \in 1..(Len(attempts) - 1) : ~attempts[i].ok
    /\ inst_pc = "file_done" =>
          /\ attempts # <<>>
          /\ file_result.installed = attempts[Len(attempts)].ok
          /\ (Len(attempts) >= 2 /\ attempts[2].ok) => Len(attempts) = 2

\* Strategy 1 failed, strategy 2 succeeded, and strategy 3 was open to the
\* process (it is privileged) yet was not tried.
C14_Witness ==
    /\ inst_pc = "file_done"
    /\ is_admin
    /\ Len(attempts) = 2
    /\ ~attempts[1].ok
    /\ attempts[2].ok
    /\ file_result.installed

\* C15: with no elevated privilege no copy and no registration is called
\* against a System-scope target (the system font directory, the
\* machine-wide registration record) during the whole run.
C15_NoSystemTargetWithoutPrivilege ==
    ~is_admin => ~system_target_used

\* C16: when the font files end Failed because privilege is absent and the
\* only installation offered is the privileged one, the outcome recorded for
\* them is a failure carrying a reason, and that reason is not the one of a
\* method that was attempted and failed.
C16_PrivilegeFailureHasItsOwnReason ==
    (inst_pc = "done" /\ ~is_admin /\ zip_count > 0) =>
        /\ ~file_result.installed
        /\ "reason" \in DOMAIN file_result
        /\ file_result.reason = "privilege"

\* C17: a font file's outcome is Success only if a method completed both its
\* copy step and its registration step.
C17_SuccessNeedsCopyAndRegistration ==
    (attempts # <<>> /\ file_result.installed) =>
        \E i \in 1..Len(attempts) : attempts[i].copied /\ attempts[i].registered

\* C18: a run that processes a batch of font files issues exactly one
\* font-changed broadcast, after the batch: none while the font files are
\* being processed, and one, not zero and not one per installed file, once
\* the run has ended.
C18_OneBroadcastAfterBatch ==
    /\ inst_pc \notin {"idle", "done"} => broadcasts = 0
    /\ (inst_pc = "done" /\ tallies.total_fonts > 0) => broadcasts = 1

\* C19: an archive without any entry of an accepted font extension is
\* counted in the failed tally: it is not counted as a success and it is not
\* left out of the tallies.
C19_NoFontArchiveCountedFailed ==
    (package.counted # "pending" /\ package.accepted = 0) =>
        package.counted = "failed"

\* C20: when reading an archive fails at any point, none of the entries
\* extracted before the error is installed, the identifier is not counted
\* as installed, and once it is counted it is counted as failed.
C20_ReadFailureFailsIdentifier ==
    package.read_failed =>
        /\ inst_pc \notin {"install", "winapi", "user", "system", "file_done"}
        /\ package.installed = 0
        /\ package.counted = "failed"

\* The tasks that took the skip path: they returned True without writing.
Skipped == {t \in Tasks : pc[t] = "returned" /\ task_result[t] /\ slept[t] = NotWritten}

\* C23: the statistics of a run keep four counts, total, success, skipped
\* and failed, that add up, and an identifier whose archive already existed
\* is counted under skipped, not as a success of this run.
C23_SkippedCountedApart ==
    phase = "done" =>
        /\ stats.success = Cardinality({t \in Tasks : task_result[t]} \ Skipped)
        /\ DOMAIN stats = {"total", "success", "skipped", "failed"}
        /\ stats.total = stats.success + stats.skipped + stats.failed

\* C24: an identifier takes the skip path in a run only if its archive
\* existed with non-zero size before that run began, whatever the
\* interleaving of the tasks and also when the list names it twice.
C24_SkipOnlyForArchiveFromBefore ==
    \A t \in Skipped : NonEmpty(startFiles[font_list[t]])

\* C25: no two concurrent tasks write the same archive path: at any instant
\* at most one task is between its existence check and the end of its write
\* for a given path, for every identifier list handed to the fetcher.
C25_OneWriterPerPath ==
    \A t, u \in InFlight : font_list[t] = font_list[u] => t = u

\* C26: when every request ends and the tasks are scheduled fairly,
\* download_all_fonts completes for every list and every C >= 1 (unless the
\* process is killed while it writes), and it completes only when every
\* task has reached its outcome, no request is in flight and one result per
\* entry has been gathered.
C26_RunCompletes ==
    /\ [](phase = "done" =>
            /\ \A t \in Tasks : pc[t] = "returned"
            /\ InFlight = {}
            /\ Len(results) = Len(font_list))
    /\ <>(phase \in {"done", "interrupted"})

\* A run of more tasks than slots has completed after a task failed.
C26_Witness ==
    /\ phase = "done"
    /\ Len(font_list) > max_concurrent
    /\ \E t \in Tasks : ~task_result[t]
    /\ \E t \in Tasks : task_result[t] /\ slept[t] # NotWritten

\* C28: whenever download_font reports success for an identifier, after a
\* skip or after a 200 response with whatever body, a file of non-zero size
\* exists at the identifier's archive path as it returns.
C28_SuccessLeavesNonEmptyArchive ==
    [][\A t \in Tasks :
          (pc[t] # "returned" /\ pc'[t] = "returned" /\ task_result'[t])
              => NonEmpty(files'[font_list[t]])]_vars

\* C29: every path through download_font gives back the slot it acquired:
\* the number of held slots is that of the tasks inside the semaphore, it
\* stays between 0 and C, and it is 0 when download_all_fonts returns.
C29_SlotsGivenBack ==
    phase \in {"running", "done"} =>
        /\ semaphore \in 0..max_concurrent
        /\ max_concurrent - semaphore = Cardinality(Holding)
        /\ phase = "done" => semaphore = max_concurrent

\* A run has returned after one task skipped and another failed while it
\* held a slot.
C29_Witness ==
    /\ phase = "done"
    /\ semaphore = max_concurrent
    /\ Skipped # {}
    /\ \E t \in Tasks : ~task_result[t] /\ requests[font_list[t]] > 0

\* C27: on Windows a font file whose registry installation fails is then
\* attempted with install_font_simple_copy.
C27_WindowsFallsBackToSimpleCopy ==
    (os_type = "windows" /\ attempts # <<>> /\ ~attempts[1].ok) =>
        /\ Len(attempts) = 2
        /\ attempts[2].method = "simple_copy"

\* C30: an archive is counted as installed only if every one of its font
\* files was installed without error, and the installed count never exceeds
\* the number of archives processed.
C30_CountedOnlyIfEveryFileInstalled ==
    /\ package.counted = "success" => package.installed = package.extracted
    /\ tallies.installed_count <= zip_index - 1

\* C22: existing font files of the user's font directory are deleted
\* (pre-clean) only after the operator has confirmed it in that run; no
\* script deletes them without a preceding confirmation.
C22_PreCleanOnlyAfterConfirmation == cleaned => choice = "y"

\* The files written for archive entries: those extracted to the staging
\* directory and those put in the target font directory by the run.
WrittenForEntries == staged \cup (target_files \ ExistingFiles)

\* C21: every file written for an archive entry, whatever directories or
\* parent-directory components the entry's name has, is written under the
\* entry's base name only, directly in the directory it is written to, never
\* in a subdirectory or outside it, and only entries with an accepted font
\* extension are written.
C21_WrittenUnderBaseNameOnly ==
    \A file \in WrittenForEntries :
        /\ file.dirs = <<>>
        /\ LowerExt(file.ext) \in ProperExtensions \cup FontsExtensions

====
